---- MODULE Spec2Model ----
(***************************************************************************)
(* Model of idtxl/estimators_mi.py: the estimator registry (is_parallel),  *)
(* the OpenCL Kraskov mutual-information estimator (opencl_kraskov) and    *)
(* the option handling of the three JIDT estimators.                       *)
(*                                                                         *)
(* Numbers.  Sample values are integers; the unit is one noise quantum,    *)
(* and the single-precision grid has a spacing of two units, so the cast   *)
(* to float32 rounds to the nearest even integer.  Digamma values are kept *)
(* exact: for an integer m, digamma(m) = -gamma + H(m-1), so an MI value   *)
(* is a rational plus at most one irrational atom digamma(f), 0 < f < 1.   *)
(* Floating-point rounding of the digamma arithmetic is not modelled.      *)
(***************************************************************************)
EXTENDS Integers, Sequences, FiniteSets

\* ------------------------------------------------------------- bounds

\* Largest number of samples (rows) of an array the caller passes.
MaxN == 5

\* ------------------------------------------------- program constants

DefaultK == 4

DefaultTheiler == 0

\* The default noise_level, 1e-8: one quantum.
DefaultNoiseLevel == 1

DefaultGpuId == 0

\* ------------------------------------------------------------ numbers

Abs(x) == IF x < 0 THEN -x ELSE x

Max2(a, b) == IF a < b THEN b ELSE a

RECURSIVE GCD(_, _)
GCD(a, b) == IF b = 0 THEN a ELSE GCD(b, a % b)

\* The rational n/d in lowest terms, d > 0.
Rat(n, d) ==
  LET s == IF d < 0 THEN -1 ELSE 1
      g == GCD(Abs(n), Abs(d))
  IN  <<(s * n) \div g, (s * d) \div g>>

RAdd(x, y) == Rat(x[1] * y[2] + y[1] * x[2], x[2] * y[2])

RSub(x, y) == Rat(x[1] * y[2] - y[1] * x[2], x[2] * y[2])

RMulInt(x, m) == Rat(x[1] * m, x[2])

RDivInt(x, m) == Rat(x[1], x[2] * m)

RIsInt(x) == x[2] = 1

\* int(x) for x >= 0: truncation.
RFloor(x) == x[1] \div x[2]

\* The harmonic number H(n) = 1 + 1/2 + ... + 1/n.
RECURSIVE Harmonic(_)
Harmonic(n) == IF n <= 0 THEN <<0, 1>> ELSE RAdd(Harmonic(n - 1), Rat(1, n))

NoAtom == <<0, 1>>

\* A real value  rat - gam * gamma + digamma(atom)  (no atom: atom = NoAtom).
Real(gam, atom, rat) == [kind |-> "real", gam |-> gam, atom |-> atom, rat |-> rat]

NegInf == [kind |-> "-inf", gam |-> 0, atom |-> NoAtom, rat |-> <<0, 1>>]

NaN == [kind |-> "nan", gam |-> 0, atom |-> NoAtom, rat |-> <<0, 1>>]

RECURSIVE DigammaFrac(_)
\* digamma(x) for a non-integer rational x > 0, reduced by
\* digamma(x) = digamma(x - 1) + 1/(x - 1) to an atom in (0, 1).
DigammaFrac(x) ==
  IF x[1] < x[2] THEN Real(0, x, <<0, 1>>)
  ELSE LET y == RSub(x, <<1, 1>>)
           r == DigammaFrac(y)
       IN  Real(0, r.atom, RAdd(r.rat, Rat(y[2], y[1])))

\* scipy.special.digamma on a positive rational (NegInf at the pole 0).
digamma(x) ==
  IF x[1] <= 0 THEN NegInf
  ELSE IF RIsInt(x) THEN Real(1, NoAtom, Harmonic(x[1] - 1))
  ELSE DigammaFrac(x)

VAdd(a, b) ==
  IF a = NaN \/ b = NaN THEN NaN
  ELSE IF a = NegInf \/ b = NegInf THEN NegInf
  ELSE Real(a.gam + b.gam, IF a.atom = NoAtom THEN b.atom ELSE a.atom,
            RAdd(a.rat, b.rat))

VSub(a, b) ==
  IF a = NaN \/ b = NaN THEN NaN
  ELSE IF a = NegInf THEN NegInf
  ELSE Real(a.gam - b.gam, a.atom, RSub(a.rat, b.rat))

RECURSIVE VSum(_)
VSum(s) == IF s = <<>> THEN Real(0, NoAtom, <<0, 1>>) ELSE VAdd(Head(s), VSum(Tail(s)))

\* np.mean of a sequence of values; nan for the empty sequence.
mean(s) ==
  IF s = <<>> THEN NaN
  ELSE LET t == VSum(s)
       IN  Real(t.gam \div Len(s), NoAtom, RDivInt(t.rat, Len(s)))

\* --------------------------------------------------------- numpy arrays
\* A 2-D array is a sequence of rows, a row a tuple of values; position i of
\* the model is Python's index i - 1.

shape0(a) == Len(a)

shape1(a) == Len(a[1])

\* ndarray.astype('float32') on one value: round to the single-precision grid.
Float32(x) == 2 * ((x + 1) \div 2)

astype_float32(a) == [i \in 1..Len(a) |-> [d \in 1..Len(a[i]) |-> Float32(a[i][d])]]

\* A concatenation that cuts the longer array down to the shorter one.
hstack_truncating(a, b) ==
  [status |-> "ok",
   value |-> [i \in 1..(IF Len(a) < Len(b) THEN Len(a) ELSE Len(b)) |-> a[i] \o b[i]]]

\* np.hstack((a, b)) of 2-D arrays: the rows side by side; a ValueError when
\* the row counts differ.
hstack(a, b) ==
  IF Len(a) # Len(b) THEN [status |-> "raised", exc |-> "ValueError"]
  ELSE [status |-> "ok", value |-> [i \in 1..Len(a) |-> a[i] \o b[i]]]

\* An addition that works on a copy and leaves the caller's array alone.
iadd_on_copy(a, noise) == a

\* a += noise, in place: the caller's array holds the sum afterwards.
iadd(a, noise) == [i \in 1..Len(a) |-> [d \in 1..Len(a[i]) |-> a[i][d] + noise[i][d]]]

\* A generator that perturbs by one quantum even at scale 0.
random_normal_never_off(scale, a) ==
  {[i \in 1..Len(a) |->
      [d \in 1..Len(a[i]) |-> IF (i + s) % 2 = 0 THEN Max2(scale, 1) ELSE -Max2(scale, 1)]]
   : s \in {0, 1}}

\* The realisations np.random.normal(scale, size) is drawn from: all zero for
\* scale 0, otherwise a bounded family of sign patterns of one quantum.
random_normal(scale, a) ==
  IF scale = 0 THEN {[i \in 1..Len(a) |-> [d \in 1..Len(a[i]) |-> 0]]}
  ELSE {[i \in 1..Len(a) |->
           [d \in 1..Len(a[i]) |-> IF (i + s) % 2 = 0 THEN scale ELSE -scale]]
        : s \in {0, 1}}

\* Python's a[lo:hi] for 0 <= lo, hi (bounds clipped to the length).
Slice(a, lo, hi) ==
  LET h == IF hi > Len(a) THEN Len(a) ELSE hi
  IN  IF lo >= h THEN <<>> ELSE SubSeq(a, lo + 1, h)

\* ------------------------------------- neighbour search backend (nsocl)
\* idtxl/neighbour_search_opencl.py: the batched KNN and range searches.

\* Chebyshev (max-norm) distance between two points of equal dimension.
RECURSIVE MaxNormFrom(_, _, _)
MaxNormFrom(p, q, d) ==
  IF d > Len(p) THEN 0
  ELSE Max2(Abs(p[d] - q[d]), MaxNormFrom(p, q, d + 1))

MaxNorm(p, q) == MaxNormFrom(p, q, 1)

\* The backend's block length: n_chunks equal blocks, the remainder cut off.
BlockLen(n, n_chunks) == n \div n_chunks

\* The chunk (0-based) of position i; positions past the last block have none.
ChunkOf(i, n, n_chunks) ==
  LET b == BlockLen(n, n_chunks)
  IN  IF b = 0 \/ (i - 1) \div b >= n_chunks THEN -1 ELSE (i - 1) \div b

\* The valid candidates of point i: the points of its own chunk that are more
\* than theiler_t index positions away (which excludes the point itself).
Candidates(i, n, theiler_t, n_chunks) ==
  LET b == BlockLen(n, n_chunks)
      c == ChunkOf(i, n, n_chunks)
  IN  IF c = -1 THEN {}
      ELSE {j \in (c * b + 1)..((c + 1) * b) : Abs(i - j) > theiler_t}

\* Candidate a comes before candidate b among point i's neighbours: nearer
\* first, ties by index order.
Closer(points, i, a, b) ==
  \/ MaxNorm(points[i], points[a]) < MaxNorm(points[i], points[b])
  \/ MaxNorm(points[i], points[a]) = MaxNorm(points[i], points[b]) /\ a <= b

\* The r-th nearest candidate of point i (0 when it has no candidates).
Neighbour(points, i, cand, r) ==
  IF cand = {} THEN 0
  ELSE CHOOSE a \in cand : Cardinality({b \in cand : Closer(points, i, b, a)}) = r

\* Every point of every chunk has at least k valid candidates.
SufficientSamples(n, k, theiler_t, n_chunks) ==
  /\ BlockLen(n, n_chunks) > 0
  /\ \A i \in 1..n : ChunkOf(i, n, n_chunks) # -1 =>
                        Cardinality(Candidates(i, n, theiler_t, n_chunks)) >= k

\* knn_search(pointset, n_dim, knn_k, theiler_t, n_chunks, gpuid): distances is
\* k x N, row r holding every point's distance to its r-th neighbour; points
\* outside every block get distance 0.  The indexes it returns beside the
\* distances are bound by the estimator and never read; they are left out.
knn_search(pointset, n_dim, knn_k, theiler_t, n_chunks, gpuid) ==
  IF ~SufficientSamples(Len(pointset), knn_k, theiler_t, n_chunks)
  THEN [status |-> "raised", exc |-> "InsufficientSamples"]
  ELSE [status |-> "ok",
        distances |-> [r \in 1..knn_k |-> [i \in 1..Len(pointset) |->
           IF Candidates(i, Len(pointset), theiler_t, n_chunks) = {} THEN 0
           ELSE MaxNorm(pointset[i],
                        pointset[Neighbour(pointset, i,
                           Candidates(i, Len(pointset), theiler_t, n_chunks), r)])]]]

\* range_search(pointset, n_dim, radius, theiler_t, n_chunks, gpuid): for each
\* point the number of valid candidates strictly closer than its radius.
range_search(pointset, n_dim, radius, theiler_t, n_chunks, gpuid) ==
  LET n == Len(pointset)
  IN  [status |-> "ok",
       counts |-> [i \in 1..n |->
                    Cardinality({j \in Candidates(i, n, theiler_t, n_chunks) :
                                   MaxNorm(pointset[i], pointset[j]) < radius[i]})]]

\* An accelerator failure of a dispatched search.
DeviceOrBackendError == [status |-> "raised", exc |-> "DeviceOrBackendError"]

\* What a search call can end in: its input error, or else its result or an
\* accelerator failure.
BackendOutcomes(result) ==
  IF result.status = "raised" THEN {result} ELSE {result, DeviceOrBackendError}

\* ------------------------------------------------------------ options
\* An opts argument: None, a dict, another object with a get method (a
\* mapping that is no dict) or an object without one; items are its entries.

Absent == -1

OptKeys == {"kraskov_k", "theiler_t", "noise_level", "gpuid"}

EmptyDict == [key \in {} |-> 0]

Dict(k, t, nl, g) ==
  LET val(key) == CASE key = "kraskov_k" -> k
                    [] key = "theiler_t" -> t
                    [] key = "noise_level" -> nl
                    [] OTHER -> g
  IN  [key \in {x \in OptKeys : val(x) # Absent} |-> val(key)]

\* The dicts a caller passes: neighbour counts and Theiler windows without
\* noise, one of them on another device, and one with noise.
Dicts ==
  {Dict(1, Absent, 0, Absent), Dict(2, Absent, 0, Absent), Dict(1, 1, 0, Absent),
   Dict(2, 1, 0, 1), Dict(1, Absent, 1, 1)}

OptsSpace ==
  {[kind |-> "None", items |-> EmptyDict], [kind |-> "object", items |-> EmptyDict]}
  \cup {[kind |-> "dict", items |-> d] : d \in Dicts}
  \cup {[kind |-> "mapping", items |-> Dict(1, Absent, 0, Absent)]}

\* dict.get(key, default)
get(items, key, default) == IF key \in DOMAIN items THEN items[key] ELSE default

\* "if opts is None: opts = {} / elif type(opts) is not dict: raise TypeError"
check_opts(opts) ==
  IF opts.kind = "None" THEN [status |-> "ok", items |-> EmptyDict]
  ELSE IF opts.kind # "dict" THEN [status |-> "raised", exc |-> "TypeError"]
  ELSE [status |-> "ok", items |-> opts.items]

\* jidt_discrete: "if opts is None: opts = {}", then opts.get(...) at once.
check_opts_discrete(opts) ==
  IF opts.kind = "None" THEN [status |-> "ok", items |-> EmptyDict]
  ELSE IF opts.kind = "object" THEN [status |-> "raised", exc |-> "AttributeError"]
  ELSE [status |-> "ok", items |-> opts.items]

\* ----------------------------------------------------------- registry

EstimatorNames ==
  {"opencl_kraskov", "jidt_kraskov", "jidt_discrete", "jidt_gaussian",
   "jidt_kraskov2", ""}

\* The table with the flag of 'jidt_kraskov' set by mistake.
parallel_estimators_flag_slip ==
  [name \in {"opencl_kraskov", "jidt_kraskov", "jidt_discrete", "jidt_gaussian"}
     |-> name \in {"opencl_kraskov", "jidt_kraskov"}]

parallel_estimators ==
  [name \in {"opencl_kraskov", "jidt_kraskov", "jidt_discrete", "jidt_gaussian"}
     |-> name = "opencl_kraskov"]

UnknownNameDiagnostic == "Unknown estimator name, assuming estimator to be serial."

\* is_parallel(estimator_name): the value returned and the lines printed.
is_parallel(estimator_name) ==
  IF estimator_name \in DOMAIN parallel_estimators
  THEN [status |-> "ok", value |-> parallel_estimators[estimator_name],
        printed |-> <<>>]
  ELSE [status |-> "ok", value |-> FALSE, printed |-> <<UnknownNameDiagnostic>>]

\* -------------------------------------------------------------- state

VARIABLES
  runtime,     \* how the interpreter divides two ints and numpy takes a float slice bound
  jvmStarted,  \* jp.isJVMStarted()
  pc,          \* where the running call stands; "done" once it has ended, "idle" between calls
  call,        \* the running (or last) call: function and arguments as passed
  var1,        \* the caller's first array
  var2,        \* the caller's second array
  loc,         \* the local variables of the running call
  log,         \* the backend operations the running (or last) call dispatched
  ret,         \* what the last call returned or raised
  stdout       \* the lines the running (or last) call printed

vars == <<runtime, jvmStarted, pc, call, var1, var2, loc, log, ret, stdout>>

\* "/" of two ints is floor division before Python 3 and true division from
\* it on; a float slice bound is truncated (with a warning) by older numpy
\* and a TypeError in newer numpy.
Runtimes == {"int_division", "float_index_truncated", "float_index_error"}

Values == {0, 1}

\* The N x 1 arrays a caller passes.
Arrays == UNION {[1..n -> [1..1 -> Values]] : n \in 1..MaxN}

\* The samples of a moved one position on, the last one first: a lagged copy.
Rotate(a) == [i \in 1..Len(a) |-> a[IF i = 1 THEN Len(a) ELSE i - 1]]

Zeros(a) == [i \in 1..Len(a) |-> [d \in 1..Len(a[i]) |-> 0]]

\* The arrays a caller passes together: a process with itself, with its
\* lagged copy or with a constant process, and the same with one of the two
\* arrays a sample short.
ArrayPairs ==
  UNION {{<<a, a>>, <<a, Rotate(a)>>, <<a, Zeros(a)>>} \cup
         (IF Len(a) = 1 THEN {}
          ELSE {<<a, SubSeq(a, 1, Len(a) - 1)>>, <<SubSeq(a, 1, Len(a) - 1), a>>})
         : a \in Arrays}

ChunkCounts == {1, 2}

NoLocals == [kraskov_k |-> 0, theiler_t |-> 0, noise_level |-> 0, gpuid |-> 0,
             nchunkspergpu |-> 0, pointset_full_space |-> <<>>, var1 |-> <<>>,
             var2 |-> <<>>, chunksize |-> [isfloat |-> FALSE, q |-> <<0, 1>>],
             radii |-> <<>>, count_var1 |-> <<>>, count_var2 |-> <<>>]

NoReturn == [status |-> "none", exc |-> "", value |-> <<>>]

Raised(e) == [status |-> "raised", exc |-> e, value |-> <<>>]

Returned(v) == [status |-> "ok", exc |-> "", value |-> v]

Call(fn, name, a, b, n_chunks, opts, noise1, noise2) ==
  [fn |-> fn, name |-> name, var1 |-> a, var2 |-> b, n_chunks |-> n_chunks,
   opts |-> opts, noise1 |-> noise1, noise2 |-> noise2]

NoCall == Call("", "", <<>>, <<>>, 0, [kind |-> "None", items |-> EmptyDict], <<>>, <<>>)

\* A backend operation as the log keeps it: the arguments it was called with
\* and what it returned (the distances of a KNN search, the counts of a range
\* search) or that it failed.
Dispatch(op, pointset, n_dim, k, radius, theiler_t, n_chunks, gpuid, r) ==
  [op |-> op, pointset |-> pointset, n_dim |-> n_dim, k |-> k, radius |-> radius,
   theiler_t |-> theiler_t, n_chunks |-> n_chunks, gpuid |-> gpuid,
   status |-> r.status,
   result |-> IF r.status = "raised" THEN <<>>
              ELSE IF op = "knn_search" THEN r.distances
              ELSE IF op = "range_search" THEN r.counts
              ELSE <<>>]

Init ==
  /\ runtime \in Runtimes
  /\ jvmStarted = FALSE
  /\ pc = "idle"
  /\ call = NoCall
  /\ var1 = <<>>
  /\ var2 = <<>>
  /\ loc = NoLocals
  /\ log = <<>>
  /\ ret = NoReturn
  /\ stdout = <<>>

\* ----------------------------------------------------------- is_parallel

IsParallel ==
  /\ pc = "idle"
  /\ \E name \in EstimatorNames :
       LET r == is_parallel(name)
       IN  /\ call' = Call("is_parallel", name, <<>>, <<>>, 0,
                           [kind |-> "None", items |-> EmptyDict], <<>>, <<>>)
           /\ ret' = Returned(r.value)
           /\ stdout' = r.printed
  /\ var1' = <<>>
  /\ var2' = <<>>
  /\ log' = <<>>
  /\ loc' = NoLocals
  /\ pc' = "done"
  /\ UNCHANGED <<runtime, jvmStarted>>

\* -------------------------------------------------------- opencl_kraskov

\* signallengthpergpu / nchunkspergpu
Divide(rt, a, b) ==
  IF rt = "int_division" THEN [isfloat |-> FALSE, q |-> Rat(a \div b, 1)]
  ELSE [isfloat |-> TRUE, q |-> Rat(a, b)]

\* A slice bound chunknum * chunksize as numpy takes it.
SliceBound(rt, chunknum, chunksize) ==
  LET x == RMulInt(chunksize.q, chunknum)
  IN  IF ~chunksize.isfloat THEN [status |-> "ok", value |-> x[1]]
      ELSE IF rt = "float_index_error" THEN [status |-> "raised", exc |-> "TypeError"]
      ELSE [status |-> "ok", value |-> RFloor(x)]

\* A loop that takes the whole array for every chunk.
ChunkSlice_whole(rt, a, chunknum, chunksize) == [status |-> "ok", value |-> a]

\* The samples of chunk chunknum as the loop slices them.
ChunkSlice(rt, a, chunknum, chunksize) ==
  LET lo == SliceBound(rt, chunknum, chunksize)
      hi == SliceBound(rt, chunknum + 1, chunksize)
  IN  IF lo.status = "raised" THEN lo
      ELSE [status |-> "ok", value |-> Slice(a, lo.value, hi.value)]

\* digamma(counts + 1), element by element.
DigammaPlusOne(counts) == [i \in 1..Len(counts) |-> digamma(Rat(counts[i] + 1, 1))]

\* The loop body's mi for one chunk.
ChunkMI(kraskov_k, chunksize, c1, c2) ==
  LET d1 == DigammaPlusOne(c1)
      d2 == DigammaPlusOne(c2)
  IN  VSub(VAdd(digamma(Rat(kraskov_k, 1)), digamma(chunksize.q)),
           mean([i \in 1..Len(d1) |-> VAdd(d1[i], d2[i])]))

\* The chunk numbers the loop runs over: range(0, nchunkspergpu).
LoopRange(nchunkspergpu) == 0..(nchunkspergpu - 1)

RECURSIVE MILoop(_, _, _, _)
\* The loop from chunknum on: the filled mi_array, or the error that ends it.
MILoop(rt, l, chunknum, mi_array) ==
  IF chunknum \notin LoopRange(l.nchunkspergpu) THEN Returned(mi_array)
  ELSE LET s1 == ChunkSlice(rt, l.count_var1, chunknum, l.chunksize)
           s2 == ChunkSlice(rt, l.count_var2, chunknum, l.chunksize)
       IN  IF s1.status = "raised" THEN Raised(s1.exc)
           ELSE MILoop(rt, l, chunknum + 1,
                       [mi_array EXCEPT ![chunknum + 1] =
                          ChunkMI(l.kraskov_k, l.chunksize, s1.value, s2.value)])

\* An estimator that answers a failed search with the MI of what it has.
AfterBackend_skipping(result, next) == IF result.status = "raised" THEN "mi" ELSE next

\* An estimator that catches the error of a search and goes on.
AfterBackend_swallowing(result, next) == next

\* What the estimator does with a backend result: nothing is caught, so an
\* error ends the call and reaches the caller; otherwise the call goes on.
AfterBackend(result, next) == IF result.status = "raised" THEN "done" ELSE next

\* The radii taken one row too early: distances[distances.shape[0] - 2, :].
LastRow_one_early(distances) == distances[Max2(1, Len(distances) - 1)]

\* The radii taken from the nearest neighbour instead of the k-th.
LastRow_first(distances) == distances[1]

\* distances[distances.shape[0] - 1, :]
LastRow(distances) == distances[Len(distances)]

\* Lines 76-105: options, noise, point sets, chunk size.
OpenclEnter ==
  /\ pc = "idle"
  /\ \E p \in ArrayPairs, n_chunks \in ChunkCounts, opts \in OptsSpace :
       LET a == p[1]
           b == p[2]
           o == check_opts(opts)
       IN  IF o.status = "raised"
           THEN /\ call' = Call("opencl_kraskov", "", a, b, n_chunks, opts, <<>>, <<>>)
                /\ var1' = a
                /\ var2' = b
                /\ ret' = Raised(o.exc)
                /\ loc' = NoLocals
                /\ pc' = "done"
           ELSE LET kraskov_k == get(o.items, "kraskov_k", DefaultK)
                    theiler_t == get(o.items, "theiler_t", DefaultTheiler)
                    noise_level == get(o.items, "noise_level", DefaultNoiseLevel)
                    gpuid == get(o.items, "gpuid", DefaultGpuId)
                IN  \E n1 \in random_normal(noise_level, a),
                       n2 \in random_normal(noise_level, b) :
                      LET v1 == iadd(a, n1)
                          v2 == iadd(b, n2)
                          full == hstack(v1, v2)
                      IN  /\ call' = Call("opencl_kraskov", "", a, b, n_chunks, opts, n1, n2)
                          /\ var1' = v1
                          /\ var2' = v2
                          /\ IF full.status = "raised"
                             THEN /\ ret' = Raised(full.exc)
                                  /\ loc' = NoLocals
                                  /\ pc' = "done"
                             ELSE /\ ret' = NoReturn
                                  /\ loc' = [NoLocals EXCEPT
                                       !.kraskov_k = kraskov_k,
                                       !.theiler_t = theiler_t,
                                       !.noise_level = noise_level,
                                       !.gpuid = gpuid,
                                       !.nchunkspergpu = n_chunks,
                                       !.pointset_full_space = astype_float32(full.value),
                                       !.var1 = astype_float32(v1),
                                       !.var2 = astype_float32(v2),
                                       !.chunksize = Divide(runtime, shape0(full.value), n_chunks)]
                                  /\ pc' = "knn"
  /\ log' = <<>>
  /\ stdout' = <<>>
  /\ UNCHANGED <<runtime, jvmStarted>>

\* Lines 108-111: the KNN search in the joint space and its radii.
OpenclKnn ==
  /\ pc = "knn"
  /\ \E r \in BackendOutcomes(
                 knn_search(loc.pointset_full_space, shape1(loc.pointset_full_space),
                            loc.kraskov_k, loc.theiler_t, loc.nchunkspergpu, loc.gpuid)) :
       /\ pc' = AfterBackend(r, "range1")
       /\ IF pc' = "done"
          THEN /\ ret' = Raised(r.exc)
               /\ loc' = NoLocals
          ELSE /\ ret' = ret
               /\ loc' = IF r.status = "raised" THEN loc
                         ELSE [loc EXCEPT !.radii = LastRow(r.distances)]
       /\ log' = Append(log, Dispatch("knn_search", loc.pointset_full_space,
                                       shape1(loc.pointset_full_space), loc.kraskov_k,
                                       <<>>, loc.theiler_t, loc.nchunkspergpu,
                                       loc.gpuid, r))
  /\ UNCHANGED <<runtime, jvmStarted, call, var1, var2, stdout>>

\* Lines 115-116: the range search in var1's space.
OpenclRange1 ==
  /\ pc = "range1"
  /\ \E r \in BackendOutcomes(
                 range_search(loc.var1, shape1(loc.var1), loc.radii, loc.theiler_t,
                              loc.nchunkspergpu, loc.gpuid)) :
       /\ pc' = AfterBackend(r, "range2")
       /\ IF pc' = "done"
          THEN /\ ret' = Raised(r.exc)
               /\ loc' = NoLocals
          ELSE /\ ret' = ret
               /\ loc' = IF r.status = "raised" THEN loc
                         ELSE [loc EXCEPT !.count_var1 = r.counts]
       /\ log' = Append(log, Dispatch("range_search", loc.var1, shape1(loc.var1), 0,
                                       loc.radii, loc.theiler_t, loc.nchunkspergpu,
                                       loc.gpuid, r))
  /\ UNCHANGED <<runtime, jvmStarted, call, var1, var2, stdout>>

\* Lines 117-118: the range search in var2's space.
OpenclRange2 ==
  /\ pc = "range2"
  /\ \E r \in BackendOutcomes(
                 range_search(loc.var2, shape1(loc.var2), loc.radii, loc.theiler_t,
                              loc.nchunkspergpu, loc.gpuid)) :
       /\ pc' = AfterBackend(r, "mi")
       /\ IF pc' = "done"
          THEN /\ ret' = Raised(r.exc)
               /\ loc' = NoLocals
          ELSE /\ ret' = ret
               /\ loc' = IF r.status = "raised" THEN loc
                         ELSE [loc EXCEPT !.count_var2 = r.counts]
       /\ log' = Append(log, Dispatch("range_search", loc.var2, shape1(loc.var2), 0,
                                       loc.radii, loc.theiler_t, loc.nchunkspergpu,
                                       loc.gpuid, r))
  /\ UNCHANGED <<runtime, jvmStarted, call, var1, var2, stdout>>

\* Lines 121-129: one mi per chunk, returned.
OpenclMI ==
  /\ pc = "mi"
  /\ ret' = MILoop(runtime, loc, 0, [c \in 1..loc.nchunkspergpu |-> NegInf])
  /\ pc' = "done"
  /\ loc' = NoLocals
  /\ UNCHANGED <<runtime, jvmStarted, call, var1, var2, log, stdout>>

\* ------------------------------------------------------ JIDT estimators

JidtNames == {"jidt_kraskov", "jidt_discrete", "jidt_gaussian"}

\* The arrays the JIDT estimators are called on (they leave them alone).
JidtArrays == {a \in Arrays : Len(a) = 1}

\* Option handling of a JIDT estimator, before anything is computed.
JidtEnter ==
  /\ pc = "idle"
  /\ \E fn \in JidtNames, a \in JidtArrays, opts \in OptsSpace :
       LET o == IF fn = "jidt_discrete" THEN check_opts_discrete(opts)
                ELSE check_opts(opts)
       IN  /\ call' = Call(fn, "", a, a, 0, opts, <<>>, <<>>)
           /\ var1' = a
           /\ var2' = a
           /\ IF o.status = "raised"
              THEN ret' = Raised(o.exc) /\ pc' = "done"
              ELSE ret' = NoReturn /\ pc' = "jvm"
  /\ log' = <<>>
  /\ stdout' = <<>>
  /\ loc' = NoLocals
  /\ UNCHANGED <<runtime, jvmStarted>>

\* The JVM is started when it is not running, and the calculator computes.
\* jidt_discrete asserts on its data first and may stop there.
JidtCompute ==
  /\ pc = "jvm"
  /\ \/ /\ jvmStarted' = TRUE
        /\ log' = Append(log, Dispatch(call.fn, <<>>, 0, 0, <<>>, 0, 0, 0,
                                        [status |-> "ok"]))
        /\ ret' = Returned(<<"jidt">>)
     \/ /\ call.fn = "jidt_discrete"
        /\ ret' = Raised("AssertionError")
        /\ UNCHANGED <<jvmStarted, log>>
  /\ pc' = "done"
  /\ UNCHANGED <<runtime, call, var1, var2, loc, stdout>>

\* The caller takes what the call returned or raised; nothing of the call is
\* kept by the estimator layer.
Return ==
  /\ pc = "done"
  /\ pc' = "idle"
  /\ call' = NoCall
  /\ var1' = <<>>
  /\ var2' = <<>>
  /\ log' = <<>>
  /\ ret' = NoReturn
  /\ stdout' = <<>>
  /\ UNCHANGED <<runtime, jvmStarted, loc>>

Next ==
  \/ IsParallel
  \/ OpenclEnter
  \/ OpenclKnn
  \/ OpenclRange1
  \/ OpenclRange2
  \/ OpenclMI
  \/ JidtEnter
  \/ JidtCompute
  \/ Return

Spec == Init /\ [][Next]_vars

\* ----------------------------------------------- the call as a function

\* The options of an opencl_kraskov call as lines 82-85 read them.
OptionsOf(opts) ==
  LET items == check_opts(opts).items
  IN  [kraskov_k |-> get(items, "kraskov_k", DefaultK),
       theiler_t |-> get(items, "theiler_t", DefaultTheiler),
       noise_level |-> get(items, "noise_level", DefaultNoiseLevel),
       gpuid |-> get(items, "gpuid", DefaultGpuId)]

\* Lines 120-129 on the counts of the two range searches.
MIArray(rt, n, n_chunks, kraskov_k, count_var1, count_var2) ==
  MILoop(rt, [NoLocals EXCEPT !.kraskov_k = kraskov_k,
                              !.nchunkspergpu = n_chunks,
                              !.chunksize = Divide(rt, n, n_chunks),
                              !.count_var1 = count_var1,
                              !.count_var2 = count_var2],
         0, [c \in 1..n_chunks |-> NegInf])

\* What opencl_kraskov returns or raises on arrays that take no noise when no
\* search fails on the accelerator: lines 92-129 in one, o the options read.
opencl_kraskov(rt, a, b, n_chunks, o) ==
  LET full == hstack(a, b)
      knn == knn_search(astype_float32(full.value), shape1(full.value),
                        o.kraskov_k, o.theiler_t, n_chunks, o.gpuid)
      radii == LastRow(knn.distances)
      c1 == range_search(astype_float32(a), shape1(a), radii, o.theiler_t,
                         n_chunks, o.gpuid)
      c2 == range_search(astype_float32(b), shape1(b), radii, o.theiler_t,
                         n_chunks, o.gpuid)
  IN  IF full.status = "raised" THEN Raised(full.exc)
      ELSE IF knn.status = "raised" THEN Raised(knn.exc)
      ELSE MIArray(rt, shape0(full.value), n_chunks, o.kraskov_k, c1.counts, c2.counts)

\* --------------------------------------------------------------- claims

\* The call got past its option check (lines 76-79).
OptsAccepted == check_opts(call.opts).status = "ok"

\* C1: is_parallel returns True for 'opencl_kraskov' and False for
\* 'jidt_kraskov', 'jidt_discrete' and 'jidt_gaussian'; for any other name it
\* raises nothing, prints the unknown-name diagnostic and returns False.
C1_IsParallelTable ==
  pc = "done" /\ call.fn = "is_parallel" =>
    /\ ret.status = "ok"
    /\ ret.value = (call.name = "opencl_kraskov")
    /\ stdout = IF call.name \in {"opencl_kraskov", "jidt_kraskov", "jidt_discrete",
                                   "jidt_gaussian"}
                THEN <<>> ELSE <<UnknownNameDiagnostic>>

C1_Witness ==
  /\ pc = "done" /\ call.fn = "is_parallel"
  /\ call.name = "jidt_kraskov2"
  /\ ret = Returned(FALSE)
  /\ stdout = <<UnknownNameDiagnostic>>

\* C2: a successful opencl_kraskov call returns exactly n_chunks values, none
\* of them the -infinity placeholder, and entry c is the chunk's MI computed
\* from the marginal counts of the samples with indices in
\* [c * chunksize, (c + 1) * chunksize) and of no other sample.
C2_OneValuePerChunk ==
  (pc = "done" /\ call.fn = "opencl_kraskov" /\ ret.status = "ok") =>
    LET size == Divide(runtime, Len(call.var1), call.n_chunks)
        \* the smallest integer that is not below the rational x
        Ceil(x) == -((-x[1]) \div x[2])
        \* the counts at the sample indices in [c * size, (c + 1) * size)
        CountsOfChunk(counts, c, sz) ==
          SubSeq(counts, Ceil(RMulInt(sz, c)) + 1, Ceil(RMulInt(sz, c + 1)))
    IN  /\ Len(ret.value) = call.n_chunks
        /\ \A c \in 0..(call.n_chunks - 1) :
              /\ ret.value[c + 1] # NegInf
              /\ ret.value[c + 1] =
                   ChunkMI(OptionsOf(call.opts).kraskov_k, size,
                           CountsOfChunk(log[2].result, c, size.q),
                           CountsOfChunk(log[3].result, c, size.q))

\* C3: with noise_level = 0 the outcome of an opencl_kraskov call is a
\* function of its arguments alone, whatever calls came before it (an
\* accelerator failure aside): the same arguments give the same MI values.
C3_Deterministic ==
  (/\ pc = "done" /\ call.fn = "opencl_kraskov"
   /\ OptsAccepted
   /\ OptionsOf(call.opts).noise_level = 0
   /\ ret.exc # "DeviceOrBackendError") =>
    ret = opencl_kraskov(runtime, call.var1, call.var2, call.n_chunks,
                         OptionsOf(call.opts))

C3_Witness ==
  /\ pc = "done" /\ call.fn = "opencl_kraskov"
  /\ OptsAccepted
  /\ OptionsOf(call.opts).noise_level = 0
  /\ jvmStarted
  /\ ret.status = "ok"
  /\ call.n_chunks = 2
  /\ ret.value[1] # ret.value[2]

\* C4: from the noise step on, and after the call, the caller's var1 and var2
\* hold their original values plus the noise drawn in the call, each noise
\* value of the size noise_level; with noise_level = 0 they hold their
\* original values.
C4_NoiseInPlace ==
  (call.fn = "opencl_kraskov" /\ OptsAccepted) =>
    /\ Len(var1) = Len(call.var1)
    /\ Len(var2) = Len(call.var2)
    /\ \A i \in 1..Len(var1) :
          /\ var1[i][1] = call.var1[i][1] + call.noise1[i][1]
          /\ Abs(call.noise1[i][1]) = OptionsOf(call.opts).noise_level
    /\ \A i \in 1..Len(var2) :
          /\ var2[i][1] = call.var2[i][1] + call.noise2[i][1]
          /\ Abs(call.noise2[i][1]) = OptionsOf(call.opts).noise_level
    /\ OptionsOf(call.opts).noise_level = 0 => (var1 = call.var1 /\ var2 = call.var2)

C4_Witness ==
  /\ pc = "done" /\ call.fn = "opencl_kraskov"
  /\ ret.status = "ok"
  /\ OptionsOf(call.opts).noise_level = 1
  /\ var1 # call.var1
  /\ var2 # call.var2

\* C5: in an opencl_kraskov call the KNN search is dispatched at most once
\* and range search at most twice, no other estimator's backend is used, and
\* a search that fails is the last operation of the call: the call ends with
\* the error raised to the caller and without any MI value.
C5_BackendErrorSurfaced ==
  call.fn = "opencl_kraskov" =>
    /\ Cardinality({i \in 1..Len(log) : log[i].op = "knn_search"}) <= 1
    /\ Cardinality({i \in 1..Len(log) : log[i].op = "range_search"}) <= 2
    /\ \A i \in 1..Len(log) :
          /\ log[i].op \in {"knn_search", "range_search"}
          /\ log[i].status = "raised" =>
                /\ i = Len(log)
                /\ pc = "done"
                /\ ret.status = "raised"
                /\ ret.value = <<>>

C5_Witness ==
  /\ pc = "done" /\ call.fn = "opencl_kraskov"
  /\ Len(log) = 3
  /\ log[3].op = "range_search"
  /\ log[3].status = "raised"
  /\ ret = Raised("DeviceOrBackendError")

\* C6: an estimator called with an opts argument that is neither None nor a
\* dict raises before it adds noise to var1 or var2 and before it calls any
\* backend; so for opencl_kraskov, jidt_kraskov, jidt_discrete, jidt_gaussian.
C6_MalformedOptsRaiseFirst ==
  (/\ call.fn \in {"opencl_kraskov"} \cup JidtNames
   /\ call.opts.kind \notin {"None", "dict"}) =>
    /\ pc = "done"
    /\ ret.status = "raised"
    /\ var1 = call.var1
    /\ var2 = call.var2
    /\ log = <<>>

\* C7: an opencl_kraskov call on arrays of different sample counts ends with
\* an error raised to the caller (the ValueError of the concatenation when
\* the options are accepted), returns no MI value and dispatches no search.
C7_DimensionMismatch ==
  (call.fn = "opencl_kraskov" /\ Len(call.var1) # Len(call.var2)) =>
    /\ pc = "done"
    /\ ret.status = "raised"
    /\ OptsAccepted => ret.exc = "ValueError"
    /\ ret.value = <<>>
    /\ log = <<>>

C7_Witness ==
  /\ pc = "done" /\ call.fn = "opencl_kraskov"
  /\ Len(call.var1) = 3
  /\ Len(call.var2) = 2
  /\ ret = Raised("ValueError")

\* C8: when n_chunks divides N and noise_level = 0, entry c of a successful
\* opencl_kraskov call on the whole arrays is the single value of the call
\* with n_chunks = 1 on the c-th block of N / n_chunks samples of var1 and
\* var2 alone.
C8_ChunkedEqualsUnchunked ==
  (/\ pc = "done" /\ call.fn = "opencl_kraskov"
   /\ ret.status = "ok"
   /\ OptionsOf(call.opts).noise_level = 0
   /\ Len(call.var1) % call.n_chunks = 0) =>
    LET b == Len(call.var1) \div call.n_chunks
    IN  \A c \in 0..(call.n_chunks - 1) :
          LET alone == opencl_kraskov(runtime,
                                      SubSeq(call.var1, c * b + 1, (c + 1) * b),
                                      SubSeq(call.var2, c * b + 1, (c + 1) * b),
                                      1, OptionsOf(call.opts))
          IN  alone.status = "ok" /\ ret.value[c + 1] = alone.value[1]

C8_Witness ==
  /\ pc = "done" /\ call.fn = "opencl_kraskov"
  /\ ret.status = "ok"
  /\ OptionsOf(call.opts).noise_level = 0
  /\ Len(call.var1) = 4
  /\ call.n_chunks = 2
  /\ ret.value[1] # ret.value[2]
  /\ ret.value[1].kind = "real"

\* C9: an opencl_kraskov call whose k exceeds the number of neighbours some
\* point has in its chunk after the Theiler exclusion gets no further than
\* the KNN search and ends with InsufficientSamples raised and no MI value.
C9_InsufficientSamples ==
  (/\ call.fn = "opencl_kraskov"
   /\ OptsAccepted
   /\ Len(call.var1) = Len(call.var2)
   /\ ~SufficientSamples(Len(call.var1), OptionsOf(call.opts).kraskov_k,
                         OptionsOf(call.opts).theiler_t, call.n_chunks)) =>
    /\ pc \in {"knn", "done"}
    /\ pc = "done" => ret = Raised("InsufficientSamples")

C9_Witness ==
  /\ pc = "done" /\ call.fn = "opencl_kraskov"
  /\ OptsAccepted
  /\ Len(call.var1) = 4
  /\ call.n_chunks = 2
  /\ OptionsOf(call.opts).kraskov_k = 1
  /\ OptionsOf(call.opts).theiler_t = 1
  /\ ret = Raised("InsufficientSamples")
  /\ Len(log) = 1

\* C10: the searches of an opencl_kraskov call are, in this order, one KNN
\* search on the joint point set with k neighbours, a range search on var1
\* and a range search on var2; both range searches get the k-th row of the
\* KNN distances as radii and the theiler_t, n_chunks and gpuid of the KNN
\* search, and a call that returns has run all three.
C10_SearchOrder ==
  call.fn = "opencl_kraskov" =>
    /\ Len(log) <= 3
    /\ pc = "range1" => Len(log) = 1
    /\ pc = "range2" => Len(log) = 2
    /\ (pc = "mi" \/ ret.status = "ok") => Len(log) = 3
    /\ Len(log) >= 1 =>
          /\ log[1].op = "knn_search"
          /\ log[1].pointset =
               [i \in 1..Len(var1) |-> <<Float32(var1[i][1]), Float32(var2[i][1])>>]
          /\ log[1].k = OptionsOf(call.opts).kraskov_k
          /\ log[1].theiler_t = OptionsOf(call.opts).theiler_t
          /\ log[1].n_chunks = call.n_chunks
          /\ log[1].gpuid = OptionsOf(call.opts).gpuid
    /\ \A i \in 2..Len(log) :
          /\ log[i].op = "range_search"
          /\ log[i].pointset =
               [j \in 1..Len(var1) |-> <<Float32((IF i = 2 THEN var1 ELSE var2)[j][1])>>]
          /\ log[1].status = "ok"
          /\ log[i].radius = log[1].result[log[1].k]
          /\ log[i].theiler_t = log[1].theiler_t
          /\ log[i].n_chunks = log[1].n_chunks
          /\ log[i].gpuid = log[1].gpuid

C10_Witness ==
  /\ pc = "done" /\ call.fn = "opencl_kraskov"
  /\ ret.status = "ok"
  /\ Len(log) = 3
  /\ log[1].k = 2
  /\ log[1].gpuid = 1
  /\ log[1].result[1] # log[1].result[2]
  /\ log[3].radius = log[1].result[2]

\* C11: every value a successful opencl_kraskov call returns is, for its
\* chunk c, digamma(k) + digamma(chunksize) minus the mean over the points of
\* chunk c of digamma(n_x + 1) + digamma(n_y + 1), with n_x and n_y the counts
\* of the two range searches, k the kraskov_k option (4 when absent) and
\* chunksize the result of N / n_chunks.
C11_ChunkFormula ==
  (pc = "done" /\ call.fn = "opencl_kraskov" /\ ret.status = "ok") =>
    LET N == Len(call.var1)
        k == IF "kraskov_k" \in DOMAIN check_opts(call.opts).items
             THEN check_opts(call.opts).items["kraskov_k"] ELSE 4
        \* the points of chunk c, in index order
        PointsOf(c) == {i \in 1..N : ChunkOf(i, N, call.n_chunks) = c}
        Of(counts, c) ==
          SubSeq(counts, c * Cardinality(PointsOf(c)) + 1,
                 (c + 1) * Cardinality(PointsOf(c)))
    IN  \A c \in 0..(call.n_chunks - 1) :
          ret.value[c + 1] =
            ChunkMI(k, Divide(runtime, N, call.n_chunks),
                    Of(log[2].result, c), Of(log[3].result, c))

\* C12 (as stated): for every point of every chunk, each range search of the
\* call, run in a marginal space with the radius the KNN search returned for
\* the point in the joint space, counts at least k - 1 neighbours.
C12_CountAtLeastKMinusOne ==
  call.fn = "opencl_kraskov" =>
    \A s \in 2..Len(log) :
      log[s].status = "ok" =>
        \A i \in 1..Len(log[s].pointset) :
          ChunkOf(i, Len(log[s].pointset), log[s].n_chunks) # -1 =>
            log[s].result[i] >= log[1].k - 1

\* C12 (amended): for every point of every chunk, each range search of the
\* call counts at least as many neighbours as the point has valid candidates
\* strictly closer in the joint space than its k-th neighbour; that is at
\* least k - 1 when the point's (k-1)-th neighbour is strictly closer than
\* its k-th, and not otherwise.
C12_CountAtLeastStrictlyCloser ==
  call.fn = "opencl_kraskov" =>
    \A s \in 2..Len(log) :
      log[s].status = "ok" =>
        \A i \in 1..Len(log[s].pointset) :
          ChunkOf(i, Len(log[s].pointset), log[s].n_chunks) # -1 =>
            /\ log[s].result[i] >=
                 Cardinality({j \in Candidates(i, Len(log[1].pointset),
                                               log[1].theiler_t, log[1].n_chunks) :
                                MaxNorm(log[1].pointset[i], log[1].pointset[j])
                                  < log[1].result[log[1].k][i]})
            /\ (\/ log[1].k = 1
                \/ log[1].result[log[1].k - 1][i] < log[1].result[log[1].k][i]) =>
                  log[s].result[i] >= log[1].k - 1

C12_Witness ==
  /\ call.fn = "opencl_kraskov"
  /\ Len(log) = 3
  /\ log[3].status = "ok"
  /\ log[1].k = 2
  /\ \E i \in 1..Len(log[1].pointset) :
        /\ log[1].result[1][i] < log[1].result[2][i]
        /\ log[2].result[i] >= 1
        /\ log[3].result[i] >= 1

\* C13: an opencl_kraskov call on N samples, N no multiple of n_chunks, whose
\* three searches succeed returns n_chunks values computed with the chunk size
\* floor(N / n_chunks): value c is the MI of the samples
\* c * floor(N / n_chunks) .. (c + 1) * floor(N / n_chunks) - 1, so the
\* trailing N mod n_chunks samples enter no value.
C13_RemainderTruncated ==
  (/\ pc = "done" /\ call.fn = "opencl_kraskov"
   /\ Len(log) = 3
   /\ log[3].status = "ok"
   /\ Len(call.var1) % call.n_chunks # 0) =>
    LET floor == Len(call.var1) \div call.n_chunks
    IN  /\ ret.status = "ok"
        /\ Len(ret.value) = call.n_chunks
        /\ \A c \in 0..(call.n_chunks - 1) :
              ret.value[c + 1] =
                ChunkMI(log[1].k, [isfloat |-> FALSE, q |-> <<floor, 1>>],
                        SubSeq(log[2].result, c * floor + 1, (c + 1) * floor),
                        SubSeq(log[3].result, c * floor + 1, (c + 1) * floor))

====
